---- MODULE Spec2Model ----
(***************************************************************************)
(* SC_DRBG (rs-sc_drbg): the generator of src/src/lib.rs over the PRF      *)
(* engine of src/src/prf.rs.                                               *)
(*                                                                         *)
(* Representation.  A byte string is a sequence of naturals.  A byte that  *)
(* the program computes (a digest, an encoded integer, a keystream byte)   *)
(* has BYTE_BITS bits, so that a u32 (4 bytes) and a u64 (8 bytes) keep    *)
(* their byte counts while their values stay within TLC's integers: all   *)
(* arithmetic on them wraps modulo 2^(BYTE_BITS * SIZE).                   *)
(* The hash D, HMAC, HKDF, SHAKE256 and AES-CTR are library code outside   *)
(* the repository; they are modelled as fixed deterministic functions of   *)
(* their whole input with the output lengths of the real ones.             *)
(***************************************************************************)
EXTENDS Integers, Sequences, FiniteSets, TLC

\* ---------------------------------------------------------------- bounds
BYTE_BITS == 1
MaxN == 2
MaxRounds == 1
MaxCalls == 2
MaxDstLen == 1
MaxDraws == 6
MaxSample == 3
MaxRangeDraws == 1

\* ------------------------------------------------------ program constants
D_1 == 1
D_2 == 2
D_3 == 3
D_4 == 4
D_5 == 5
D_6 == 6
D_7 == 7
MIN_DIGEST == 16
NONCE_LEN == 16
USIZE_SIZE == 8

ByteBase == 2 ^ BYTE_BITS

Min(a, b) == IF a <= b THEN a ELSE b

RECURSIVE Flatten(_)
Flatten(arr) == IF arr = <<>> THEN <<>> ELSE Head(arr) \o Flatten(Tail(arr))

Lens(arr) == [i \in 1..Len(arr) |-> Len(arr[i])]

Zeros(n) == [i \in 1..n |-> 0]

\* bitwise exclusive or of two naturals
RECURSIVE XorNat(_, _)
XorNat(a, b) ==
    IF a = 0 THEN b
    ELSE IF b = 0 THEN a
    ELSE ((a + b) % 2) + 2 * XorNat(a \div 2, b \div 2)

XorBytes(x, y) == [j \in 1..Len(x) |-> XorNat(x[j], y[j])] \o <<>>

\* ---------------------------------------------------- integers and bytes
CounterEndian == {"U32LE", "U32BE", "U64LE", "U64BE"}

SIZE(e) == IF e \in {"U32LE", "U32BE"} THEN 4 ELSE 8

IsLE(e) == e \in {"U32LE", "U64LE"}

\* number of values of an unsigned integer of `size` bytes
Card2(size) == ByteBase ^ size

MAX(size) == Card2(size) - 1

wrapping_add(a, b, size) == (a + b) % Card2(size)

wrapping_sub(a, b, size) == (a - b + Card2(size)) % Card2(size)

\* `v as u32`, `v as u64`, `v as usize`: keep the low `size` bytes
from_usize(v, size) == v % Card2(size)

as_usize(v) == v % Card2(USIZE_SIZE)

to_le_bytes(v, size) == [k \in 1..size |-> (v \div (ByteBase ^ (k - 1))) % ByteBase]

to_be_bytes(v, size) == [k \in 1..size |-> (v \div (ByteBase ^ (size - k))) % ByteBase]

RECURSIVE from_be_bytes(_)
from_be_bytes(b) ==
    IF b = <<>> THEN 0
    ELSE from_be_bytes(SubSeq(b, 1, Len(b) - 1)) * ByteBase + b[Len(b)]

RECURSIVE from_le_bytes(_)
from_le_bytes(b) ==
    IF b = <<>> THEN 0 ELSE Head(b) + ByteBase * from_le_bytes(Tail(b))

encode(e, v) == IF IsLE(e) THEN to_le_bytes(v, SIZE(e)) ELSE to_be_bytes(v, SIZE(e))

decode(e, b) == IF IsLE(e) THEN from_le_bytes(b) ELSE from_be_bytes(b)

\* ------------------------------------------------------ library primitives
\* The absorbing step of the modelled hash is s |-> (33 * s + x + 1) mod 32749
\* for every input byte x in turn.  AffineOf(msg, lo, hi) is the composition
\* <<a, b>> of the steps for msg[lo..hi] (s |-> a * s + b): runs of up to four
\* bytes directly, longer runs by halving.
RECURSIVE AffineOf(_, _, _)
AffineOf(msg, lo, hi) ==
    CASE hi < lo     -> <<1, 0>>
      [] hi = lo     -> <<33, msg[lo] + 1>>
      [] hi = lo + 1 -> <<1089, (msg[lo] + 1) * 33 + msg[hi] + 1>>
      [] hi = lo + 2 -> <<35937 % 32749,
                          ((msg[lo] + 1) * 1089 + (msg[lo + 1] + 1) * 33 + msg[hi] + 1) % 32749>>
      [] hi = lo + 3 -> <<1185921 % 32749,
                          ((msg[lo] + 1) * 35937 + (msg[lo + 1] + 1) * 1089
                           + (msg[lo + 2] + 1) * 33 + msg[hi] + 1) % 32749>>
      [] OTHER ->
            LET mid == (lo + hi) \div 2
                f   == AffineOf(msg, lo, mid)
                g   == AffineOf(msg, mid + 1, hi)
            IN  <<(g[1] * f[1]) % 32749, (g[1] * f[2] + g[2]) % 32749>>

\* the state after absorbing msg[i..] into state s
AbsorbFrom(msg, i, s) ==
    LET f == AffineOf(msg, i, Len(msg)) IN (f[1] * s + f[2]) % 32749

\* n output bytes of a sponge / hash state: byte i depends on s and i only,
\* so a shorter read is a prefix of a longer one
Squeeze(s, n) ==
    [i \in 1..n |-> ((((s + 1) * (37 * i + 11)) % 32749) \div 13) % ByteBase] \o <<>>

\* D::new().update(..).finalize(): the digest of dlen bytes
Digest(dlen, msg) == Squeeze(AbsorbFrom(msg, 1, 17), dlen)

\* Hmac::<D>::new_from_slice(key).update(msg).finalize()
HmacDigest(dlen, key, msg) ==
    Squeeze(AbsorbFrom(msg, 1, AbsorbFrom(key, 1, 54 + Len(key))), dlen)

\* Hkdf::<D>::extract(Some(salt), ikm)
HkdfExtract(dlen, salt, ikm) == HmacDigest(dlen, salt, ikm)

\* Hkdf::<D>::from_prk(prk).expand(info, okm) with |okm| = len
RECURSIVE HkdfExpandFrom(_, _, _, _, _, _)
HkdfExpandFrom(dlen, prk, info, len, t, i) ==
    IF len <= 0 THEN <<>>
    ELSE LET blk == HmacDigest(dlen, prk, t \o info \o <<i>>)
         IN  IF len <= dlen THEN SubSeq(blk, 1, len)
             ELSE blk \o HkdfExpandFrom(dlen, prk, info, len - dlen, blk, i + 1)

HkdfExpand(dlen, prk, info, len) == HkdfExpandFrom(dlen, prk, info, len, <<>>, 1)

\* Shake256: absorb msg, then read n bytes
ShakeXof(msg, n) == Squeeze(AbsorbFrom(msg, 1, 256), n)

\* Ctr128BE::<AesNNN>::new(key, nonce): the first n keystream bytes
AesCtrKeystream(key, nonce, n) ==
    Squeeze(AbsorbFrom(nonce, 1, AbsorbFrom(key, 1, 128 + Len(key))), n)

\* str::as_bytes of an ASCII label
Ascii(ch) ==
    CASE ch = "-" -> 45 [] ch = "a" -> 97 [] ch = "b" -> 98
      [] ch = "A" -> 65 [] ch = "B" -> 66 [] ch = "C" -> 67 [] ch = "D" -> 68
      [] ch = "E" -> 69 [] ch = "F" -> 70 [] ch = "G" -> 71 [] ch = "I" -> 73
      [] ch = "K" -> 75 [] ch = "M" -> 77 [] ch = "N" -> 78 [] ch = "O" -> 79
      [] ch = "P" -> 80 [] ch = "R" -> 82 [] ch = "S" -> 83 [] ch = "T" -> 84
      [] ch = "U" -> 85 [] ch = "X" -> 88 [] ch = "Y" -> 89 [] ch = "_" -> 95
      [] ch = "0" -> 48 [] ch = "1" -> 49 [] ch = "2" -> 50 [] ch = "3" -> 51
      [] ch = "l" -> 108 [] ch = "i" -> 105 [] ch = "t" -> 116 [] ch = "e" -> 101
      [] ch = "n" -> 110 [] ch = "d" -> 100 [] ch = "g" -> 103

as_bytes(chars) == [i \in 1..Len(chars) |-> Ascii(chars[i])]

\* format!("ROUND{}", i) for the round numbers the model reaches
Decimal(i) ==
    IF i < 10 THEN <<48 + i>> ELSE <<48 + (i \div 10), 48 + (i % 10)>>

\* ------------------------------------------------------- src/src/prf.rs
\* Prf::bind
PrfBind(dlen, arr, key, e) ==
    [i \in 1..Len(arr) |->
        HmacDigest(dlen, key,
            <<D_1>> \o encode(e, from_usize(i - 1, SIZE(e)))
                    \o encode(e, from_usize(Len(arr[i]), SIZE(e)))
                    \o arr[i])]

\* the bytes absorbed by the sponge after the tweak: every element, then its index
RECURSIVE SpongeInput(_, _, _)
SpongeInput(mixed, e, j) ==
    IF j > Len(mixed) THEN <<>>
    ELSE mixed[j] \o encode(e, from_usize(j - 1, SIZE(e))) \o SpongeInput(mixed, e, j + 1)

\* number of bytes read from the sponge before element j
RECURSIVE ReadOffset(_, _)
ReadOffset(mixed, j) ==
    IF j <= 1 THEN 0 ELSE ReadOffset(mixed, j - 1) + Len(mixed[j - 1])

\* variant: the stream cut into equal shares, one per element
SqueezeEvenly(mixed, stream) ==
    [j \in 1..Len(mixed) |->
        SubSeq(stream, (j - 1) * (Len(stream) \div Len(mixed)) + 1,
                       j * (Len(stream) \div Len(mixed)))]

\* the read loop of one round: element j is the next Len(mixed[j]) bytes
SqueezeElements(mixed, stream) ==
    [j \in 1..Len(mixed) |->
        SubSeq(stream, ReadOffset(mixed, j) + 1, ReadOffset(mixed, j) + Len(mixed[j]))]

\* one iteration (round i) of the loop of Prf::mix
MixRound(dlen, mixed, prk, i, e) ==
    LET key   == HkdfExpand(dlen, prk, as_bytes(<<"R", "O", "U", "N", "D">>) \o Decimal(i), dlen)
        tweak == Digest(dlen, key \o encode(e, from_usize(i, SIZE(e))))
        total == ReadOffset(mixed, Len(mixed) + 1)
        stream == ShakeXof(tweak \o SpongeInput(mixed, e, 1), total)
    IN  SqueezeElements(mixed, stream)

\* variant: the loop left one round early
RECURSIVE MixFromOneShort(_, _, _, _, _, _)
MixFromOneShort(dlen, mixed, prk, i, rounds, e) ==
    IF i + 1 >= rounds THEN mixed
    ELSE MixFromOneShort(dlen, MixRound(dlen, mixed, prk, i, e), prk, i + 1, rounds, e)

RECURSIVE MixFrom(_, _, _, _, _, _)
MixFrom(dlen, mixed, prk, i, rounds, e) ==
    IF i >= rounds THEN mixed
    ELSE MixFrom(dlen, MixRound(dlen, mixed, prk, i, e), prk, i + 1, rounds, e)

\* Prf::mix
PrfMix(dlen, arr, prk, rounds, e) == MixFrom(dlen, arr, prk, 0, rounds, e)

RECURSIVE CommitInput(_, _, _)
CommitInput(arr, e, i) ==
    IF i > Len(arr) THEN <<>>
    ELSE encode(e, from_usize(i - 1, SIZE(e)))
         \o encode(e, from_usize(Len(arr[i]), SIZE(e)))
         \o arr[i] \o CommitInput(arr, e, i + 1)

\* Prf::commitment
commitment(dlen, arr, e) ==
    Digest(dlen, <<D_2>> \o encode(e, from_usize(Len(arr), SIZE(e))) \o CommitInput(arr, e, 1))

\* Prf::subkeys
subkeys(dlen, arr, key, commit, e) ==
    [i \in 1..Len(arr) |->
        HmacDigest(dlen, key,
            <<D_3>> \o encode(e, from_usize(i - 1, SIZE(e)))
                    \o encode(e, from_usize(Len(arr[i]), SIZE(e)))
                    \o arr[i] \o commit)]

\* the closure `next` of Prf::indices: the PRF block for internal counter ic
NextBlock(dlen, key, commit, counter, ic, e) ==
    HmacDigest(dlen, key, <<D_4>> \o commit \o encode(e, counter) \o encode(e, ic))

\* variant: position a overwritten, position b left as it was
SwapOverwrite(seq, a, b) == [seq EXCEPT ![a] = seq[b]]

\* k_i.swap(i, j_usize)
Swap(seq, a, b) == [seq EXCEPT ![a] = seq[b], ![b] = seq[a]]

\* the sampler's state before its loop: k_i = [0..n-1], p empty, ctr = 0
SamplerInit(n, e) ==
    [k_i   |-> [x \in 1..as_usize(n) |-> from_usize(x - 1, SIZE(e))],
     p     |-> <<>>,
     ctr   |-> 0,
     i     |-> 0,
     draws |-> 0,
     fills |-> 0,
     fault |-> "none"]

\* `U::from(0).wrapping_sub(range) % range`
RejectionRem(range, size) == wrapping_sub(0, range, size) % range

\* `U::from(0).wrapping_sub(rem)`
RejectionLimit(rem, size) == wrapping_sub(0, rem, size)

\* variant: a draw accepted only on a range that needs no rejection
AcceptedWhenEven(v, rem, size) == rem = 0

\* variant: no draw rejected
AcceptedAlways(v, rem, size) == TRUE

\* variant: the limit itself accepted as well
AcceptedUpToLimit(v, rem, size) ==
    rem = 0 \/ as_usize(v) <= as_usize(RejectionLimit(rem, size))

\* whether the draw v leaves the loop: always when rem = 0, else when
\* `v.as_usize() < limit.as_usize()`
Accepted(v, rem, size) ==
    rem = 0 \/ as_usize(v) < as_usize(RejectionLimit(rem, size))

\* One draw of the loop body of Prf::indices at outer index st.i: refill when
\* fewer than SIZE bytes are buffered (blk is what next() returns), decode,
\* drain, and either reject (stay at i) or swap and advance.
SamplerDraw(st, n, e, blk) ==
    LET size  == SIZE(e)
        i_c   == from_usize(st.i, size)
        range == wrapping_sub(n, i_c, size)
    IN  IF range = 0 THEN [st EXCEPT !.fault = "rem_by_zero"]
        ELSE
        LET rem    == RejectionRem(range, size)
            refill == Len(st.p) < size
            p1     == IF refill THEN blk ELSE st.p
            ctr1   == IF refill THEN wrapping_add(st.ctr, 1, size) ELSE st.ctr
            fills1 == IF refill THEN st.fills + 1 ELSE st.fills
        IN  IF Len(p1) < size THEN [st EXCEPT !.fault = "slice_out_of_range"]
            ELSE
            LET v      == decode(e, SubSeq(p1, 1, size))
                p2     == SubSeq(p1, size + 1, Len(p1))
                accept == Accepted(v, rem, size)
                j      == st.i + as_usize(v % range)
                drawn  == [st EXCEPT !.p = p2, !.ctr = ctr1, !.fills = fills1,
                                     !.draws = st.draws + 1]
            IN  IF ~accept THEN drawn
                ELSE IF j >= Len(st.k_i) \/ st.i >= Len(st.k_i)
                     THEN [drawn EXCEPT !.fault = "swap_out_of_bounds"]
                     ELSE [drawn EXCEPT !.k_i = Swap(st.k_i, st.i + 1, j + 1),
                                        !.i = st.i + 1]

\* the loop `for i in 0..s_usize` of Prf::indices, at most MaxDraws draws
RECURSIVE IndicesLoop(_, _, _, _, _, _, _)
IndicesLoop(st, dlen, key, commit, n, s_usize, ce) ==
    IF st.fault # "none" \/ st.i >= s_usize THEN st
    ELSE IF st.draws >= MaxDraws THEN [st EXCEPT !.fault = "draw_limit"]
    ELSE IndicesLoop(
            SamplerDraw(st, n, ce.e, NextBlock(dlen, key, commit, ce.counter, st.ctr, ce.e)),
            dlen, key, commit, n, s_usize, ce)

\* the end of Prf::indices on the loop's final state: k_i[0..s_usize]
IndicesResult(st, s_usize) ==
    IF st.fault # "none" THEN [fault |-> st.fault, k_i |-> <<>>]
    ELSE IF s_usize > Len(st.k_i) THEN [fault |-> "slice_out_of_range", k_i |-> <<>>]
    ELSE [fault |-> "none", k_i |-> SubSeq(st.k_i, 1, s_usize)]

\* Prf::indices: [fault, k_i]
indices(dlen, key, commit, n, s, counter, e) ==
    IndicesResult(IndicesLoop(SamplerInit(n, e), dlen, key, commit, n, as_usize(s),
                              [e |-> e, counter |-> counter]),
                  as_usize(s))

\* the loop of Prf::combine from position k of the index list
\* variant: the accumulator replaced by each tag in turn
RECURSIVE CombineFromLastTag(_, _, _, _, _, _)
CombineFromLastTag(dlen, sks, idx, msg, k, acc) ==
    IF k > Len(idx) THEN acc
    ELSE CombineFromLastTag(dlen, sks, idx, msg, k + 1,
                            HmacDigest(dlen, sks[as_usize(idx[k]) + 1], msg))

RECURSIVE CombineFrom(_, _, _, _, _, _)
CombineFrom(dlen, sks, idx, msg, k, acc) ==
    IF k > Len(idx) THEN acc
    ELSE CombineFrom(dlen, sks, idx, msg, k + 1,
                     XorBytes(acc, HmacDigest(dlen, sks[as_usize(idx[k]) + 1], msg)))

\* Prf::combine: [fault, acc]
combine(dlen, sks, idx, commit, counter, e) ==
    IF \E k \in 1..Len(idx) : as_usize(idx[k]) >= Len(sks)
    THEN [fault |-> "subkey_out_of_bounds", acc |-> <<>>]
    ELSE [fault |-> "none",
          acc |-> CombineFrom(dlen, sks, idx, <<D_5>> \o commit \o encode(e, counter),
                              1, Zeros(dlen))]

\* variant: the 24-byte key chosen from 20 bytes of digest on
KeyLenFromTwenty(dlen) == IF dlen >= 32 THEN 32 ELSE IF dlen >= 20 THEN 24 ELSE 16

\* AES key length chosen from the digest length
KeyLen(dlen) == IF dlen >= 32 THEN 32 ELSE IF dlen >= 24 THEN 24 ELSE 16

\* the PRF key cut or stretched from key_full
PrfKey(dlen, key_full, key_len) ==
    IF Len(key_full) >= key_len THEN SubSeq(key_full, 1, key_len)
    ELSE key_full \o
         HkdfExpand(dlen, HkdfExtract(dlen, <<>>, key_full),
             as_bytes(<<"A", "E", "S", "_", "K", "E", "Y", "_", "E", "X", "P",
                        "A", "N", "S", "I", "O", "N">>),
             key_len - Len(key_full))

\* the nonce cut from nonce_full: `nonce_full[0..16]`
PrfNonce(prf_key, nonce_full) ==
    IF Len(nonce_full) < NONCE_LEN
    THEN [fault |-> "nonce_slice", prf_key |-> prf_key, nonce |-> <<>>]
    ELSE [fault |-> "none", prf_key |-> prf_key, nonce |-> SubSeq(nonce_full, 1, NONCE_LEN)]

\* Prf::derive_key_nonce: [fault, prf_key, nonce]
derive_key_nonce(dlen, key, commit, counter, acc, e) ==
    PrfNonce(PrfKey(dlen, HmacDigest(dlen, key, <<D_6>> \o commit \o encode(e, counter) \o acc),
                    KeyLen(dlen)),
             HmacDigest(dlen, key, <<D_7>> \o commit \o encode(e, counter)))

\* variant: the keystream laid down from the end of dst backwards
ApplyKeystreamFromEnd(prf_key, nonce, dst) ==
    [j \in 1..Len(dst) |-> AesCtrKeystream(prf_key, nonce, Len(dst))[Len(dst) + 1 - j]] \o <<>>

\* variant: the keystream applied to dst as the caller left it
ApplyKeystreamInPlace(prf_key, nonce, dst) ==
    XorBytes(dst, AesCtrKeystream(prf_key, nonce, Len(dst)))

\* dst.fill(0) followed by cipher.apply_keystream(dst)
ApplyKeystream(prf_key, nonce, dst) ==
    XorBytes(Zeros(Len(dst)), AesCtrKeystream(prf_key, nonce, Len(dst)))

\* Prf::next from `dst.fill(0)` on: the match on prf_key.len()
NextOutput(dst, kn) ==
    IF kn.fault # "none" THEN [fault |-> kn.fault, dst |-> dst]
    ELSE IF Len(kn.prf_key) \notin {16, 24, 32}
         THEN [fault |-> "aes_key_len", dst |-> Zeros(Len(dst))]
         ELSE [fault |-> "none", dst |-> ApplyKeystream(kn.prf_key, kn.nonce, dst)]

\* Prf::next after combine returned acc
NextCombined(dlen, counter, e, dst, commit, key_3, acc) ==
    IF acc.fault # "none" THEN [fault |-> acc.fault, dst |-> dst]
    ELSE NextOutput(dst, derive_key_nonce(dlen, key_3, commit, counter, acc.acc, e))

\* Prf::next after subkeys returned k_s and indices returned k_i
NextSelected(dlen, counter, e, dst, commit, key_3, k_s, k_i) ==
    IF k_i.fault # "none" THEN [fault |-> k_i.fault, dst |-> dst]
    ELSE NextCombined(dlen, counter, e, dst, commit, key_3,
                      combine(dlen, k_s, k_i.k_i, commit, counter, e))

\* Prf::next after the commitment
NextCommitted(dlen, arr, prk, subset, counter, e, dst, commit) ==
    NextSelected(dlen, counter, e, dst, commit,
        HkdfExpand(dlen, prk, as_bytes(<<"P", "R", "F">>), dlen),
        subkeys(dlen, arr,
            HkdfExpand(dlen, prk, as_bytes(<<"S", "U", "B", "K", "E", "Y", "S">>), dlen),
            commit, e),
        indices(dlen,
            HkdfExpand(dlen, prk, as_bytes(<<"I", "N", "D", "I", "C", "E", "S">>), dlen),
            commit, from_usize(Len(arr), SIZE(e)), from_usize(subset, SIZE(e)), counter, e))

\* Prf::next: [fault, dst]; a panic before dst.fill(0) leaves dst as it was
PrfNext(dlen, arr, prk, subset, counter, e, dst) ==
    IF Len(prk) < dlen THEN [fault |-> "prk_too_short", dst |-> dst]
    ELSE NextCommitted(dlen, arr, prk, subset, counter, e, dst, commitment(dlen, arr, e))

\* ------------------------------------------------------- src/src/lib.rs
None == [some |-> FALSE, str |-> <<>>]

Some(str) == [some |-> TRUE, str |-> str]

\* context.unwrap_or("")
unwrap_or_empty(context) == IF context.some THEN context.str ELSE <<>>

\* format!("{}<suffix>", context).as_bytes()
Label(str, suffix) == as_bytes(str \o suffix)

\* Drbg::derive_prk
derive_prk(dlen, ikm, label) == HkdfExtract(dlen, label, ikm)

\* variant: the binding key expanded with the same info for both byte orders
DrbgBindOneInfo(dlen, arr, context, e) ==
    PrfBind(dlen, arr,
        HkdfExpand(dlen,
            derive_prk(dlen, Flatten(arr),
                Label(unwrap_or_empty(context), <<"-", "B", "I", "N", "D">>)),
            as_bytes(<<"l", "i", "t", "t", "l", "e", "-", "e", "n", "d", "i", "a", "n">>),
            dlen),
        e)

\* Drbg::bind
DrbgBind(dlen, arr, context, e) ==
    LET label == Label(unwrap_or_empty(context), <<"-", "B", "I", "N", "D">>)
        prk   == derive_prk(dlen, Flatten(arr), label)
        info  == IF IsLE(e)
                 THEN as_bytes(<<"l", "i", "t", "t", "l", "e", "-", "e", "n", "d", "i", "a", "n">>)
                 ELSE as_bytes(<<"b", "i", "g", "-", "e", "n", "d", "i", "a", "n">>)
        key   == HkdfExpand(dlen, prk, info, dlen)
    IN  PrfBind(dlen, arr, key, e)

\* Drbg::mix
DrbgMix(dlen, arr, context, rounds, e) ==
    LET label == Label(unwrap_or_empty(context), <<"-", "M", "I", "X">>)
        prk   == derive_prk(dlen, Flatten(arr), label)
    IN  PrfMix(dlen, arr, prk, rounds, e)

\* variant: the positions collected from the last element down
RECURSIVE EmptyElementsDescending(_, _)
EmptyElementsDescending(arr, i) ==
    IF i > Len(arr) THEN <<>>
    ELSE EmptyElementsDescending(arr, i + 1) \o (IF arr[i] = <<>> THEN <<i - 1>> ELSE <<>>)

\* the indices collected by Drbg::validate_array: positions of empty elements
RECURSIVE EmptyElements(_, _)
EmptyElements(arr, i) ==
    IF i > Len(arr) THEN <<>>
    ELSE (IF arr[i] = <<>> THEN <<i - 1>> ELSE <<>>) \o EmptyElements(arr, i + 1)

\* variant: only the elements are looked at, not the array itself
validate_array_elements_only(arr) ==
    IF \E i \in 1..Len(arr) : arr[i] = <<>>
    THEN [err |-> "EmptyElement", data |-> <<>>]
    ELSE [err |-> "Ok", data |-> <<>>]

\* Drbg::validate_array
validate_array(arr) ==
    IF arr = <<>> THEN [err |-> "EmptyArray", data |-> <<>>]
    ELSE IF EmptyElements(arr, 1) # <<>>
         THEN [err |-> "EmptyElement", data |-> EmptyElements(arr, 1)]
         ELSE [err |-> "Ok", data |-> <<>>]

\* variant: a digest of exactly MIN_DIGEST bytes refused as well
validate_digest_inclusive(dlen) ==
    IF dlen <= MIN_DIGEST THEN [err |-> "DigestTooSmall", data |-> <<dlen>>]
    ELSE [err |-> "Ok", data |-> <<>>]

\* Drbg::validate_digest
validate_digest(dlen) ==
    IF dlen < MIN_DIGEST THEN [err |-> "DigestTooSmall", data |-> <<dlen>>]
    ELSE [err |-> "Ok", data |-> <<>>]

\* Drbg::new_from: the fields of the new instance
new_from(dlen, a, c, e) ==
    [arr        |-> a,
     prk        |-> derive_prk(dlen, Flatten(a),
                       Label(unwrap_or_empty(c), <<"-", "O", "U", "T", "P", "U", "T">>)),
     context    |-> unwrap_or_empty(c),
     ctr        |-> 0,
     ctr_endian |-> e]

\* the body shared by new_u32_le, new_u32_be, new_u64_le, new_u64_be
NewBound(dlen, a, c, rounds, e) ==
    LET va == validate_array(a)
        vd == validate_digest(dlen)
    IN  IF va.err # "Ok" THEN [res |-> va, drbg |-> None]
        ELSE IF vd.err # "Ok" THEN [res |-> vd, drbg |-> None]
        ELSE [res |-> vd,
              drbg |-> new_from(dlen,
                           DrbgMix(dlen, DrbgBind(dlen, a, c, e), c, rounds, e), c, e)]

\* the body shared by new_from_u32_le, new_from_u32_be, new_from_u64_le, new_from_u64_be
NewRaw(dlen, a, c, e) ==
    LET va == validate_array(a)
        vd == validate_digest(dlen)
    IN  IF va.err # "Ok" THEN [res |-> va, drbg |-> None]
        ELSE IF vd.err # "Ok" THEN [res |-> vd, drbg |-> None]
        ELSE [res |-> vd, drbg |-> new_from(dlen, a, c, e)]

\* variant: the subset size passed on as given
UnclampedSubset(subset, n) == subset

\* `subset.min(self.arr.len())`
ClampSubset(subset, n) == Min(subset, n)

\* variant: every arm compared against usize::MAX
CounterLimitOfUsize(e) == as_usize(MAX(USIZE_SIZE))

\* the counter check of each match arm: u32::MAX as usize, u64::MAX as usize
CounterLimit(e) == as_usize(MAX(SIZE(e)))

\* variant: the new PRK extracted from the array as it was before the re-mix
EvolvedFromOldArray(dlen, g, tmp_arr) ==
    [arr |-> tmp_arr,
     prk |-> derive_prk(dlen, Flatten(g.arr), Label(g.context, <<"-", "N", "E", "X", "T">>))]

\* the new state from the re-mixed array: its PRK under the "-NEXT" label
Evolved(dlen, g, tmp_arr) ==
    [arr |-> tmp_arr,
     prk |-> derive_prk(dlen, Flatten(tmp_arr), Label(g.context, <<"-", "N", "E", "X", "T">>))]

\* variant: the re-mix key extracted from no input keying material
EvolveUnkeyed(dlen, g, dst) ==
    Evolved(dlen, g,
        PrfMix(dlen, g.arr,
               derive_prk(dlen, <<>>, Label(g.context, <<"-", "R", "E", "M", "I", "X">>)),
               1, g.ctr_endian))

\* the state update after Prf::next: re-mix the array keyed from dst, new PRK
Evolve(dlen, g, dst) ==
    Evolved(dlen, g,
        PrfMix(dlen, g.arr,
               derive_prk(dlen, dst, Label(g.context, <<"-", "R", "E", "M", "I", "X">>)),
               1, g.ctr_endian))

\* variant: array and PRK assigned, the counter left as it was
AssignedSameCtr(g, dst, ev) ==
    [outcome |-> "ok", fault |-> "none",
     drbg |-> [g EXCEPT !.arr = ev.arr, !.prk = ev.prk],
     dst |-> dst]

\* the assignments that end fill_bytes_subset
Assigned(g, dst, ev) ==
    [outcome |-> "ok", fault |-> "none",
     drbg |-> [g EXCEPT !.ctr = wrapping_add(g.ctr, 1, USIZE_SIZE),
                        !.arr = ev.arr, !.prk = ev.prk],
     dst |-> dst]

\* fill_bytes_subset after Prf::next returned (or panicked)
AfterNext(dlen, g, out) ==
    IF out.fault # "none"
    THEN [outcome |-> "panic", fault |-> out.fault, drbg |-> g, dst |-> out.dst]
    ELSE Assigned(g, out.dst, Evolve(dlen, g, out.dst))

\* variant: Prf::next called without the counter check before it
fill_bytes_subset_unchecked(dlen, g, subset_in, dst) ==
    AfterNext(dlen, g,
        PrfNext(dlen, g.arr, g.prk, ClampSubset(subset_in, Len(g.arr)),
                from_usize(g.ctr, SIZE(g.ctr_endian)), g.ctr_endian, dst))

\* Drbg::fill_bytes_subset on generator g with the caller's buffer dst:
\* [outcome, fault, drbg, dst]
fill_bytes_subset(dlen, g, subset_in, dst) ==
    IF g.ctr = CounterLimit(g.ctr_endian)
    THEN [outcome |-> "panic", fault |-> "counter_limit", drbg |-> g, dst |-> dst]
    ELSE AfterNext(dlen, g,
            PrfNext(dlen, g.arr, g.prk, ClampSubset(subset_in, Len(g.arr)),
                    from_usize(g.ctr, SIZE(g.ctr_endian)), g.ctr_endian, dst))

\* a buffer whose storage is released: which one, its position in the array
\* (0 outside the array), and the bytes the storage holds at that moment
Freed(buf, at, bytes) == [buf |-> buf, at |-> at, bytes |-> bytes]

\* Zeroize::zeroize on a Vec<u8>: what its storage holds afterwards
zeroize(v) == Zeros(Len(v))

\* variant: the PRK wiped, the elements released as they are
DroppedKeyOnly(g) ==
    {Freed("prk", 0, zeroize(g.prk))}
        \cup {Freed("arr", i, g.arr[i]) : i \in 1..Len(g.arr)}

\* Drop for Drbg: the PRK and every element zeroized, then released with self
Dropped(g) ==
    {Freed("prk", 0, zeroize(g.prk))}
        \cup {Freed("arr", i, zeroize(g.arr[i])) : i \in 1..Len(g.arr)}

\* what a returning fill_bytes_subset releases of the buffers that held key
\* material: key_1, key_2, key_3 at the end of Prf::next, and the array and
\* the PRK that the final assignments replace; none is written to before
ReleasedByFill(dlen, g) ==
    {Freed("key_1", 0, HkdfExpand(dlen, g.prk, as_bytes(<<"S", "U", "B", "K", "E", "Y", "S">>), dlen)),
     Freed("key_2", 0, HkdfExpand(dlen, g.prk, as_bytes(<<"I", "N", "D", "I", "C", "E", "S">>), dlen)),
     Freed("key_3", 0, HkdfExpand(dlen, g.prk, as_bytes(<<"P", "R", "F">>), dlen)),
     Freed("prk", 0, g.prk)}
        \cup {Freed("arr", i, g.arr[i]) : i \in 1..Len(g.arr)}

\* variant: the bytes always read as little-endian
DecodeAlwaysLE(e, bytes) == from_le_bytes(bytes)

\* the decoding of next_u32_subset / next_u64_subset: by endianness only
DecodeLE(e, bytes) == IF IsLE(e) THEN from_le_bytes(bytes) ELSE from_be_bytes(bytes)

\* -------------------------------------------------------- the state machine
VARIABLES
    dlen,        \* output size of the digest D the instance is generic over
    live,        \* a constructor has returned Ok: the instance exists
    arr,         \* Drbg.arr
    prk,         \* Drbg.prk
    context,     \* Drbg.context
    ctr,         \* Drbg.ctr
    ctr_endian,  \* Drbg.ctr_endian
    born,        \* element lengths of arr when the constructor returned
    calls,       \* output calls made on the instance in this run
    returned,    \* output calls that returned since construction
    last,        \* the last operation: its arguments, outcome and the state it entered with
    twin,        \* a second instance driven by the same operations (SpecPair)
    smp,         \* one run of the sampler of Prf::indices (SpecSampler)
    freed        \* the key-material buffers the last operation released

vars == <<dlen, live, arr, prk, context, ctr, ctr_endian, born, calls, returned, last,
          twin, smp, freed>>

\* the instance as one record
G == [arr |-> arr, prk |-> prk, context |-> context, ctr |-> ctr, ctr_endian |-> ctr_endian]

NoDrbg == [arr |-> <<>>, prk |-> <<>>, context |-> <<>>, ctr |-> 0, ctr_endian |-> "U32LE"]

NoCall ==
    [op |-> "none", a |-> <<>>, c |-> None, rounds |-> 0, subset |-> 0, dst_in |-> <<>>,
     outcome |-> "none", fault |-> "none", data |-> <<>>, dst |-> <<>>, value |-> 0,
     pre |-> NoDrbg]

NoTwin == [live |-> FALSE, drbg |-> NoDrbg, outcome |-> "none", dst_in |-> <<>>,
           dst |-> <<>>, value |-> 0]

NoSampler ==
    [on |-> FALSE, n |-> 0, s |-> 0, e |-> "U32LE", st |-> SamplerInit(0, "U32LE"),
     produced |-> 0, word |-> 0]

\* ----------------------------------------------------------------- inputs
\* digest sizes: two below the minimum, and the minimum itself
Digests == {8, 15, 16}

\* the non-empty element offered at position i (lengths alternate 1, 2)
SeedElement(i) == IF i % 2 = 1 THEN <<1>> ELSE <<2, 3>>

\* every array of at most MaxN elements whose element i is empty or SeedElement(i)
SeedArrays ==
    UNION {{[i \in 1..n |-> IF i \in E THEN <<>> ELSE SeedElement(i)] : E \in SUBSET (1..n)}
           : n \in 0..MaxN}

Contexts == {None, Some(<<"a">>)}

\* no element, a proper subset, and more than any array holds
Subsets == {0, 1, MaxN + 1}

\* the caller's buffers: every length up to MaxDstLen, filled with a non-zero byte
DstBuffers == {[i \in 1..n |-> ByteBase - 1] : n \in 0..MaxDstLen}

BoundOps == {"new_u32_le", "new_u32_be", "new_u64_le", "new_u64_be"}

RawOps == {"new_from_u32_le", "new_from_u32_be", "new_from_u64_le", "new_from_u64_be"}

FillOps == {"fill_bytes_subset", "fill_bytes"}

SubsetOps == {"fill_bytes_subset", "next_u32_subset", "next_u64_subset"}

OutputOps == {"fill_bytes_subset", "fill_bytes", "next_u32_subset", "next_u32",
              "next_u64_subset", "next_u64"}

\* the CounterEndian each constructor passes on
EndianOf(op) ==
    CASE op \in {"new_u32_le", "new_from_u32_le"} -> "U32LE"
      [] op \in {"new_u32_be", "new_from_u32_be"} -> "U32BE"
      [] op \in {"new_u64_le", "new_from_u64_le"} -> "U64LE"
      [] op \in {"new_u64_be", "new_from_u64_be"} -> "U64BE"

\* the eight constructors: [res, drbg]
Constructor(op, d, a, c, rounds) ==
    IF op \in BoundOps THEN NewBound(d, a, c, rounds, EndianOf(op))
    ELSE NewRaw(d, a, c, EndianOf(op))

\* the subset an output operation passes to fill_bytes_subset
SubsetArg(op, g, subset) ==
    IF op \in SubsetOps THEN subset ELSE Len(g.arr)

\* the buffer an output operation passes to fill_bytes_subset: the caller's
\* dst, or the accessor's own `[0u8; 4]` / `[0u8; 8]`
BufferArg(op, dst) ==
    CASE op \in {"next_u32", "next_u32_subset"} -> Zeros(4)
      [] op \in {"next_u64", "next_u64_subset"} -> Zeros(8)
      [] OTHER -> dst

\* the value an output operation returns: the accessors decode the filled
\* buffer, fill_bytes and fill_bytes_subset return nothing
Returned(op, e, r) ==
    [outcome |-> r.outcome, fault |-> r.fault, drbg |-> r.drbg, dst |-> r.dst,
     value |-> IF op \in FillOps \/ r.outcome # "ok" THEN 0 ELSE DecodeLE(e, r.dst)]

\* the six output operations on instance g: [outcome, fault, drbg, dst, value]
OutputCall(op, d, g, subset, dst) ==
    Returned(op, g.ctr_endian,
             fill_bytes_subset(d, g, SubsetArg(op, g, subset), BufferArg(op, dst)))

Init ==
    /\ dlen \in Digests
    /\ live = FALSE
    /\ arr = <<>> /\ prk = <<>> /\ context = <<>> /\ ctr = 0 /\ ctr_endian = "U32LE"
    /\ born = <<>> /\ calls = 0 /\ returned = 0
    /\ last = NoCall
    /\ twin = NoTwin
    /\ smp = NoSampler
    /\ freed = {}

\* what a constructor call with result r leaves: on Ok the instance exists, on
\* Err nothing is constructed
Constructed(op, a, c, rounds, r) ==
    /\ last' = [NoCall EXCEPT !.op = op, !.a = a, !.c = c, !.rounds = rounds,
                              !.outcome = r.res.err, !.data = r.res.data]
    /\ IF r.res.err = "Ok"
       THEN /\ live' = TRUE
            /\ arr' = r.drbg.arr /\ prk' = r.drbg.prk /\ context' = r.drbg.context
            /\ ctr' = r.drbg.ctr /\ ctr_endian' = r.drbg.ctr_endian
            /\ born' = Lens(r.drbg.arr)
       ELSE UNCHANGED <<live, arr, prk, context, ctr, ctr_endian, born>>
    /\ calls' = 0 /\ returned' = 0
    /\ freed' = {}
    /\ UNCHANGED <<dlen, smp>>

\* a constructor is the first operation of a run
new_u32_le ==
    /\ ~live /\ last.op = "none"
    /\ \E a \in SeedArrays, c \in Contexts, rounds \in 0..MaxRounds :
          \E r \in {NewBound(dlen, a, c, rounds, "U32LE")} :
              Constructed("new_u32_le", a, c, rounds, r)
    /\ UNCHANGED twin

new_u32_be ==
    /\ ~live /\ last.op = "none"
    /\ \E a \in SeedArrays, c \in Contexts, rounds \in 0..MaxRounds :
          \E r \in {NewBound(dlen, a, c, rounds, "U32BE")} :
              Constructed("new_u32_be", a, c, rounds, r)
    /\ UNCHANGED twin

new_u64_le ==
    /\ ~live /\ last.op = "none"
    /\ \E a \in SeedArrays, c \in Contexts, rounds \in 0..MaxRounds :
          \E r \in {NewBound(dlen, a, c, rounds, "U64LE")} :
              Constructed("new_u64_le", a, c, rounds, r)
    /\ UNCHANGED twin

new_u64_be ==
    /\ ~live /\ last.op = "none"
    /\ \E a \in SeedArrays, c \in Contexts, rounds \in 0..MaxRounds :
          \E r \in {NewBound(dlen, a, c, rounds, "U64BE")} :
              Constructed("new_u64_be", a, c, rounds, r)
    /\ UNCHANGED twin

new_from_u32_le ==
    /\ ~live /\ last.op = "none"
    /\ \E a \in SeedArrays, c \in Contexts :
          \E r \in {NewRaw(dlen, a, c, "U32LE")} : Constructed("new_from_u32_le", a, c, 0, r)
    /\ UNCHANGED twin

new_from_u32_be ==
    /\ ~live /\ last.op = "none"
    /\ \E a \in SeedArrays, c \in Contexts :
          \E r \in {NewRaw(dlen, a, c, "U32BE")} : Constructed("new_from_u32_be", a, c, 0, r)
    /\ UNCHANGED twin

new_from_u64_le ==
    /\ ~live /\ last.op = "none"
    /\ \E a \in SeedArrays, c \in Contexts :
          \E r \in {NewRaw(dlen, a, c, "U64LE")} : Constructed("new_from_u64_le", a, c, 0, r)
    /\ UNCHANGED twin

new_from_u64_be ==
    /\ ~live /\ last.op = "none"
    /\ \E a \in SeedArrays, c \in Contexts :
          \E r \in {NewRaw(dlen, a, c, "U64BE")} : Constructed("new_from_u64_be", a, c, 0, r)
    /\ UNCHANGED twin

\* what an output call with result r leaves; a panic leaves the instance as
\* it was.  A run the model cut off at MaxDraws draws is no behaviour.
Called(op, subset, dst, r) ==
    /\ r.fault # "draw_limit"
    /\ last' = [NoCall EXCEPT !.op = op, !.subset = subset, !.dst_in = BufferArg(op, dst),
                              !.outcome = r.outcome, !.fault = r.fault,
                              !.dst = r.dst, !.value = r.value, !.pre = G]
    /\ arr' = r.drbg.arr /\ prk' = r.drbg.prk /\ ctr' = r.drbg.ctr
    /\ returned' = IF r.outcome = "ok" THEN returned + 1 ELSE returned
    /\ calls' = calls + 1
    /\ freed' = IF r.outcome = "ok" THEN ReleasedByFill(dlen, G) ELSE {}
    /\ UNCHANGED <<dlen, live, context, ctr_endian, born, smp>>

FillBytesSubset ==
    /\ live /\ calls < MaxCalls
    /\ \E subset \in Subsets, dst \in DstBuffers :
          \E r \in {OutputCall("fill_bytes_subset", dlen, G, subset, dst)} :
              Called("fill_bytes_subset", subset, dst, r)
    /\ UNCHANGED twin

FillBytes ==
    /\ live /\ calls < MaxCalls
    /\ \E dst \in DstBuffers :
          \E r \in {OutputCall("fill_bytes", dlen, G, 0, dst)} :
              Called("fill_bytes", 0, dst, r)
    /\ UNCHANGED twin

NextU32Subset ==
    /\ live /\ calls < MaxCalls
    /\ \E subset \in Subsets :
          \E r \in {OutputCall("next_u32_subset", dlen, G, subset, <<>>)} :
              Called("next_u32_subset", subset, <<>>, r)
    /\ UNCHANGED twin

NextU32 ==
    /\ live /\ calls < MaxCalls
    /\ \E r \in {OutputCall("next_u32", dlen, G, 0, <<>>)} : Called("next_u32", 0, <<>>, r)
    /\ UNCHANGED twin

NextU64Subset ==
    /\ live /\ calls < MaxCalls
    /\ \E subset \in Subsets :
          \E r \in {OutputCall("next_u64_subset", dlen, G, subset, <<>>)} :
              Called("next_u64_subset", subset, <<>>, r)
    /\ UNCHANGED twin

NextU64 ==
    /\ live /\ calls < MaxCalls
    /\ \E r \in {OutputCall("next_u64", dlen, G, 0, <<>>)} : Called("next_u64", 0, <<>>, r)
    /\ UNCHANGED twin

\* the instance goes out of scope: Drop for Drbg runs, the fields are released
drop ==
    /\ live
    /\ last' = [NoCall EXCEPT !.op = "drop", !.pre = G]
    /\ freed' = Dropped(G)
    /\ live' = FALSE
    /\ arr' = <<>> /\ prk' = <<>> /\ context' = <<>> /\ ctr' = 0
    /\ UNCHANGED <<dlen, ctr_endian, born, calls, returned, twin, smp>>

Next ==
    \/ new_u32_le \/ new_u32_be \/ new_u64_le \/ new_u64_be
    \/ new_from_u32_le \/ new_from_u32_be \/ new_from_u64_le \/ new_from_u64_be
    \/ FillBytesSubset \/ FillBytes
    \/ NextU32Subset \/ NextU32 \/ NextU64Subset \/ NextU64
    \/ drop

Spec == Init /\ [][Next]_vars

\* ------------------------------------------- an instance near exhaustion
\* the instance after k calls of fill_bytes(&mut []): the first half of the
\* calls, then the rest
RECURSIVE Aged(_, _, _)
Aged(d, g, k) ==
    CASE k = 0 -> g
      [] k = 1 -> fill_bytes_subset(d, g, Len(g.arr), <<>>).drbg
      [] OTHER -> CHOOSE x \in {Aged(d, h, k - (k \div 2)) : h \in {Aged(d, g, k \div 2)}} : TRUE

\* an instance of each counter type, one call short of its last: built by a
\* new_from constructor and aged by 2^W - 2 calls
InitAged ==
    /\ dlen = MIN_DIGEST
    /\ live = TRUE
    /\ \E e \in CounterEndian, c \in Contexts :
          \E g \in {Aged(MIN_DIGEST,
                         new_from(MIN_DIGEST, <<SeedElement(1), SeedElement(2)>>, c, e),
                         MAX(SIZE(e)) - 1)} :
              /\ arr = g.arr /\ prk = g.prk /\ context = g.context
              /\ ctr = g.ctr /\ ctr_endian = g.ctr_endian
              /\ born = Lens(g.arr)
              /\ returned = g.ctr
    /\ calls = 0
    /\ last = NoCall
    /\ twin = NoTwin
    /\ smp = NoSampler
    /\ freed = {}

NextAged ==
    \/ FillBytesSubset \/ FillBytes
    \/ NextU32Subset \/ NextU32 \/ NextU64Subset \/ NextU64

SpecAged == InitAged /\ [][NextAged]_vars

\* ------------------------------- as many elements as the counter type counts
\* an array of 2^W one-byte elements, W the width of the counter type
WideArray(e) == [i \in 1..Card2(SIZE(e)) |-> <<1>>]

\* an instance with a 32-bit counter built by new_from_u32_le / new_from_u32_be
\* on such an array
InitWide ==
    /\ dlen = MIN_DIGEST
    /\ live = TRUE
    /\ \E e \in {"U32LE", "U32BE"}, c \in Contexts :
          \E g \in {new_from(MIN_DIGEST, WideArray(e), c, e)} :
              /\ arr = g.arr /\ prk = g.prk /\ context = g.context
              /\ ctr = g.ctr /\ ctr_endian = g.ctr_endian
              /\ born = Lens(g.arr)
    /\ calls = 0 /\ returned = 0
    /\ last = NoCall
    /\ twin = NoTwin
    /\ smp = NoSampler
    /\ freed = {}

SpecWide == InitWide /\ [][NextAged]_vars

\* --------------------------------------------------- two instances in step
\* the second caller's buffer: as long as the first's, with other contents
TwinBuffer(dst) == Zeros(Len(dst))

\* both instances come from the same constructor call with equal arguments
PairConstruct ==
    /\ ~live /\ last.op = "none"
    /\ \E op \in BoundOps \cup RawOps, a \in SeedArrays, c \in Contexts, rounds \in 0..MaxRounds :
          /\ op \in RawOps => rounds = 0
          /\ \E r \in {Constructor(op, dlen, a, c, rounds)},
                t \in {Constructor(op, dlen, a, c, rounds)} :
                /\ Constructed(op, a, c, rounds, r)
                /\ twin' = [NoTwin EXCEPT !.live = (t.res.err = "Ok"),
                                          !.drbg = IF t.res.err = "Ok" THEN t.drbg ELSE NoDrbg]

\* the same operation with the same subset size on both, the buffers of equal length
PairCall ==
    /\ live /\ twin.live /\ calls < MaxCalls
    /\ \E op \in OutputOps, subset \in Subsets, dst \in DstBuffers :
          /\ op \notin SubsetOps => subset = 0
          /\ op \notin FillOps => dst = <<>>
          /\ \E r \in {OutputCall(op, dlen, G, subset, dst)},
                t \in {OutputCall(op, dlen, twin.drbg, subset, TwinBuffer(dst))} :
                /\ Called(op, subset, dst, r)
                /\ twin' = [live |-> TRUE, drbg |-> t.drbg, outcome |-> t.outcome,
                            dst_in |-> BufferArg(op, TwinBuffer(dst)),
                            dst |-> t.dst, value |-> t.value]

NextPair == PairConstruct \/ PairCall

SpecPair == Init /\ [][NextPair]_vars

\* ------------------------------------------------- the sampler on its own
\* the integers a PRF block is made of: the smallest and the largest
SampleWords(e) == {0, 1, 2, MAX(SIZE(e)) - 1, MAX(SIZE(e))}

\* the blocks next() may return: two integers, with or without a byte left over
Blocks(e) ==
    {encode(e, w1) \o encode(e, w2) \o t :
        w1 \in SampleWords(e), w2 \in SampleWords(e), t \in {<<>>, <<1>>}}

InitSampler ==
    /\ dlen = MIN_DIGEST
    /\ live = FALSE
    /\ arr = <<>> /\ prk = <<>> /\ context = <<>> /\ ctr = 0 /\ ctr_endian = "U32LE"
    /\ born = <<>> /\ calls = 0 /\ returned = 0
    /\ last = NoCall
    /\ twin = NoTwin
    /\ freed = {}
    /\ \E n \in 1..MaxSample, e \in CounterEndian :
          \E s \in 0..n :
              smp = [on |-> TRUE, n |-> n, s |-> s, e |-> e, st |-> SamplerInit(n, e),
                     produced |-> 0, word |-> 0]

\* the integer a draw decodes: the front of the queue, or of blk on a refill
DrawnWord(st, e, blk) ==
    decode(e, SubSeq(IF Len(st.p) < SIZE(e) THEN blk ELSE st.p, 1, SIZE(e)))

\* one draw of the loop of Prf::indices, the block next() returns being any;
\* produced counts the bytes next() has returned so far, word is the integer
\* the draw decoded
Draw ==
    /\ smp.on
    /\ smp.st.fault = "none"
    /\ smp.st.i < smp.s
    /\ smp.st.draws < MaxDraws
    /\ \E blk \in Blocks(smp.e) :
          smp' = [smp EXCEPT !.st = SamplerDraw(smp.st, smp.n, smp.e, blk),
                             !.produced = IF Len(smp.st.p) < SIZE(smp.e)
                                          THEN smp.produced + Len(blk)
                                          ELSE smp.produced,
                             !.word = DrawnWord(smp.st, smp.e, blk)]
    /\ UNCHANGED <<dlen, live, arr, prk, context, ctr, ctr_endian, born, calls, returned,
                   last, twin, freed>>

SpecSampler == InitSampler /\ [][Draw]_vars

\* ------------------------------------------ the sampler run to its end
\* The loop state kept finite for runs that never end: the counts of draws
\* and refills, which the program does not keep, stop at MaxDraws; the
\* internal counter, which the program uses only as an input of next(), is
\* not followed, the block next() returns being any block here.
LoopState(st) ==
    [st EXCEPT !.draws = Min(st.draws, MaxDraws), !.fills = Min(st.fills, MaxDraws),
               !.ctr = 0]

\* a draw that leaves the rejection loop: the round swaps and i advances
DrawTaken ==
    /\ smp.on
    /\ smp.st.fault = "none"
    /\ smp.st.i < smp.s
    /\ \E blk \in Blocks(smp.e) :
          \E r \in {SamplerDraw(smp.st, smp.n, smp.e, blk)} :
              /\ r.i > smp.st.i
              /\ smp' = [smp EXCEPT !.st = LoopState(r)]
    /\ UNCHANGED <<dlen, live, arr, prk, context, ctr, ctr_endian, born, calls, returned,
                   last, twin, freed>>

\* a draw that stays in the rejection loop: v >= limit, or a fault
DrawRejected ==
    /\ smp.on
    /\ smp.st.fault = "none"
    /\ smp.st.i < smp.s
    /\ \E blk \in Blocks(smp.e) :
          \E r \in {SamplerDraw(smp.st, smp.n, smp.e, blk)} :
              /\ r.i = smp.st.i
              /\ smp' = [smp EXCEPT !.st = LoopState(r)]
    /\ UNCHANGED <<dlen, live, arr, prk, context, ctr, ctr_endian, born, calls, returned,
                   last, twin, freed>>

DrawOn == DrawTaken \/ DrawRejected

\* The loop has no suspension point, so a draw that can be made is made
\* (WF); the PRF stream does not yield rejected values forever, so a draw
\* that leaves the rejection loop is made eventually (SF).
SpecSamplerFair ==
    InitSampler /\ [][DrawOn]_vars /\ WF_vars(DrawOn) /\ SF_vars(DrawTaken)

\* --------------------------------------- the AES key, over digest lengths
\* digest lengths the constructors accept, on both sides of 24 and of 32
KeyDigests == {16, 20, 23, 24, 28, 31, 32, 48, 64}

\* the arguments Prf::next has for derive_key_nonce: key_3, the commitment and
\* the accumulator (all zero when no index is selected), dlen bytes each
InitKey ==
    /\ dlen \in KeyDigests
    /\ live = FALSE
    /\ arr = <<>> /\ prk = <<>> /\ context = <<>> /\ ctr = 0 /\ ctr_endian = "U32LE"
    /\ born = <<>> /\ calls = 0 /\ returned = 0
    /\ \E e \in CounterEndian, k \in 1..2, z \in BOOLEAN, counter \in 0..1 :
          last = [NoCall EXCEPT
                    !.a = <<HkdfExpand(dlen, Digest(dlen, <<k>>), as_bytes(<<"P", "R", "F">>), dlen),
                            Digest(dlen, <<D_2, k>>),
                            IF z THEN Zeros(dlen) ELSE HmacDigest(dlen, <<k>>, <<D_5>>)>>,
                    !.value = counter,
                    !.pre = [NoDrbg EXCEPT !.ctr_endian = e]]
    /\ twin = NoTwin
    /\ smp = NoSampler
    /\ freed = {}

\* Prf::derive_key_nonce applied: dst holds prf_key, data the nonce
DeriveKeyNonce ==
    /\ last.op = "none"
    /\ Len(last.a) = 3
    /\ \E r \in {derive_key_nonce(dlen, last.a[1], last.a[2], last.value, last.a[3],
                                    last.pre.ctr_endian)} :
          last' = [last EXCEPT !.op = "derive_key_nonce",
                               !.outcome = IF r.fault = "none" THEN "ok" ELSE "panic",
                               !.fault = r.fault,
                               !.dst = r.prf_key,
                               !.data = r.nonce]
    /\ UNCHANGED <<dlen, live, arr, prk, context, ctr, ctr_endian, born, calls, returned,
                   twin, smp, freed>>

SpecKey == InitKey /\ [][DeriveKeyNonce]_vars

\* ------------------------------------- the first draw, over every range
\* the sampler before its first round, the array length n being any value of
\* the counter type but 0, so that range = n - 0 is any value in 1..MAX
InitRange ==
    /\ dlen = MIN_DIGEST
    /\ live = FALSE
    /\ arr = <<>> /\ prk = <<>> /\ context = <<>> /\ ctr = 0 /\ ctr_endian = "U32LE"
    /\ born = <<>> /\ calls = 0 /\ returned = 0
    /\ last = NoCall
    /\ twin = NoTwin
    /\ freed = {}
    /\ \E e \in CounterEndian :
          \E n \in 1..MAX(SIZE(e)) :
              smp = [on |-> TRUE, n |-> n, s |-> 1, e |-> e, st |-> SamplerInit(n, e),
                     produced |-> 0, word |-> 0]

\* a draw of the round i = 0 on a block holding any one integer
DrawWord ==
    /\ smp.on
    /\ smp.st.fault = "none"
    /\ smp.st.i < smp.s
    /\ smp.st.draws < MaxRangeDraws
    /\ \E v \in 0..MAX(SIZE(smp.e)) :
          smp' = [smp EXCEPT !.st = SamplerDraw(smp.st, smp.n, smp.e, encode(smp.e, v)),
                             !.produced = smp.produced + SIZE(smp.e),
                             !.word = DrawnWord(smp.st, smp.e, encode(smp.e, v))]
    /\ UNCHANGED <<dlen, live, arr, prk, context, ctr, ctr_endian, born, calls, returned,
                   last, twin, freed>>

SpecRange == InitRange /\ [][DrawWord]_vars

\* ----------------------------------------------------------- properties
Constructors == BoundOps \cup RawOps

\* the positions (from 0) of the empty elements of a
EmptyPositions(a) == {i - 1 : i \in {k \in 1..Len(a) : a[k] = <<>>}}

Ascending(seq) == \A x, y \in 1..Len(seq) : x < y => seq[x] < seq[y]

Range(seq) == {seq[x] : x \in 1..Len(seq)}

\* C1: two instances built by the same constructor from equal arguments and
\* driven by the same operations with the same subset sizes and the same dst
\* lengths, whatever the buffers held before, return the same outcome, bytes
\* and value at every step and hold the same arr, prk and ctr.
TwinsAgree ==
    twin.live =>
        /\ live
        /\ twin.drbg = G
        /\ last.op \in OutputOps =>
              /\ twin.outcome = last.outcome
              /\ Len(twin.dst_in) = Len(last.dst_in)
              /\ last.outcome = "ok" => twin.dst = last.dst /\ twin.value = last.value

\* C1: both instances have answered two calls, the last one a fill of buffers
\* that held different bytes
TwinsFilledDifferentBuffers ==
    /\ twin.live
    /\ returned = 2
    /\ last.op = "fill_bytes_subset"
    /\ last.outcome = "ok"
    /\ last.dst_in # <<>>
    /\ twin.dst_in # last.dst_in

\* C2: ctr is 0 when a constructor returns, and every output call that
\* returns leaves it exactly 1 above the value the call entered with.
CtrCountsReturnedCalls ==
    /\ live /\ last.op \in Constructors => ctr = 0
    /\ live => ctr = returned
    /\ last.op \in OutputOps /\ last.outcome = "ok" => ctr = last.pre.ctr + 1

\* C2: a second output call has returned
CtrAfterTwoCalls == live /\ last.op \in OutputOps /\ last.outcome = "ok" /\ returned = 2

\* C3: an output call entered with ctr = 2^W - 1 (W the width of the counter
\* type) aborts, and leaves dst, arr, prk, ctr and context as they were.
ExhaustedCallAborts ==
    last.op \in OutputOps /\ last.pre.ctr = MAX(SIZE(last.pre.ctr_endian)) =>
        /\ last.outcome = "panic"
        /\ last.fault = "counter_limit"
        /\ G = last.pre
        /\ last.dst = last.dst_in

\* C3: a fill of a non-empty buffer was refused on an exhausted 64-bit counter
ExhaustedFillRefused ==
    /\ last.op = "fill_bytes"
    /\ last.fault = "counter_limit"
    /\ last.dst_in # <<>>
    /\ ctr_endian = "U64BE"
    /\ ctr = MAX(8)

\* C4: a subset operation asked for more elements than the array holds does
\* what the same operation asked for exactly N elements does: same outcome,
\* same bytes, same value, same next state.
OversizeSubsetIsWholeArray ==
    last.op \in SubsetOps /\ last.subset > Len(last.pre.arr) =>
        \A w \in {OutputCall(last.op, dlen, last.pre, Len(last.pre.arr), last.dst_in)} :
            /\ w.outcome = last.outcome
            /\ w.dst = last.dst
            /\ w.value = last.value
            /\ w.drbg = G

\* C4: fill_bytes_subset has filled a buffer for a subset size above N
OversizeSubsetFilled ==
    /\ last.op = "fill_bytes_subset"
    /\ last.subset > Len(last.pre.arr)
    /\ Len(last.pre.arr) = 2
    /\ last.outcome = "ok"
    /\ last.dst # <<>>

\* C5: every constructor given an empty array fails with EmptyArray, whatever
\* the digest size, and constructs nothing.
EmptyArrayRejected ==
    last.op \in Constructors /\ last.a = <<>> =>
        /\ last.outcome = "EmptyArray"
        /\ last.data = <<>>
        /\ ~live

\* C5: the empty array was refused under a digest that is itself too small
EmptyArrayBeforeDigest ==
    /\ last.op = "new_from_u64_be"
    /\ last.a = <<>>
    /\ last.outcome = "EmptyArray"
    /\ dlen < 16

\* C6: every constructor given a non-empty array with an empty element fails
\* with EmptyElement carrying exactly the 0-based positions of the empty
\* elements in ascending order, and constructs nothing.
EmptyElementsReported ==
    last.op \in Constructors /\ last.a # <<>> /\ EmptyPositions(last.a) # {} =>
        /\ last.outcome = "EmptyElement"
        /\ Ascending(last.data)
        /\ Range(last.data) = EmptyPositions(last.a)
        /\ ~live

\* C6: an array with two empty elements was refused
TwoEmptyElementsReported ==
    /\ last.op = "new_u32_le"
    /\ last.outcome = "EmptyElement"
    /\ Len(last.data) = 2

\* C7: every constructor given a valid array fails with DigestTooSmall(dlen)
\* and constructs nothing when the digest has fewer than 16 bytes, and
\* succeeds when it has 16 or more.
DigestLengthGate ==
    last.op \in Constructors /\ last.a # <<>> /\ EmptyPositions(last.a) = {} =>
        IF dlen < 16
        THEN last.outcome = "DigestTooSmall" /\ last.data = <<dlen>> /\ ~live
        ELSE last.outcome = "Ok" /\ live

\* C7: a digest of 15 bytes was refused
DigestOfFifteenRefused ==
    /\ last.op = "new_u64_le"
    /\ last.outcome = "DigestTooSmall"
    /\ last.data = <<15>>

\* C8: the Mixer keeps the number of elements and every element's length, in
\* the constructor's rounds (on the bound elements, dlen bytes each) and in
\* every output call, so both are constant from construction on.
LengthsPreserved ==
    /\ live => Lens(arr) = born
    /\ live /\ last.op \in RawOps => Lens(arr) = Lens(last.a)
    /\ live /\ last.op \in BoundOps =>
          /\ Len(arr) = Len(last.a)
          /\ \A i \in 1..Len(arr) : Len(arr[i]) = dlen
    /\ last.op \in OutputOps => Lens(arr) = Lens(last.pre.arr)

\* C8: an array of elements of different lengths has been re-mixed twice
UnequalLengthsMixedTwice ==
    /\ live
    /\ born = <<1, 2>>
    /\ returned = 2

\* C9: at every point of the sampler's loop the working list is a permutation
\* of 0..N-1; when the loop ends the sampler returns exactly s values,
\* pairwise distinct, each in [0, N), whatever the PRF blocks were.
SamplerYieldsDistinctIndices ==
    smp.on =>
        /\ smp.st.fault = "none"
        /\ Len(smp.st.k_i) = smp.n
        /\ Range(smp.st.k_i) = 0..(smp.n - 1)
        /\ smp.st.i = smp.s =>
              \A r \in {IndicesResult(smp.st, smp.s)} :
                  /\ r.fault = "none"
                  /\ Len(r.k_i) = smp.s
                  /\ \A x, y \in 1..Len(r.k_i) : x # y => r.k_i[x] # r.k_i[y]
                  /\ \A x \in 1..Len(r.k_i) : r.k_i[x] >= 0 /\ r.k_i[x] < smp.n

\* C9: the sampler has finished a full-size draw after a rejection, a refill
\* that dropped a left-over byte, and with the list reordered
SamplerFinishedAfterRejection ==
    /\ smp.on
    /\ smp.n = 3 /\ smp.s = 3
    /\ smp.st.i = 3
    /\ smp.st.draws > 3
    /\ smp.st.fills > 1
    /\ smp.st.k_i = <<2, 0, 1>>

DropZeroizes ==
    last.op = "drop" =>
        /\ ~live
        /\ \E r \in freed : r.buf = "prk" /\ Len(r.bytes) = Len(last.pre.prk)
        /\ \A i \in 1..Len(last.pre.arr) :
              \E r \in freed : r.buf = "arr" /\ r.at = i /\ Len(r.bytes) = Len(last.pre.arr[i])
        /\ \A r \in freed : \A k \in 1..Len(r.bytes) : r.bytes[k] = 0

\* C11: a generator of two elements was dropped after two output calls
DroppedAfterTwoCalls ==
    /\ last.op = "drop"
    /\ last.pre.ctr = 2
    /\ Len(last.pre.arr) = 2
    /\ \E k \in 1..Len(last.pre.prk) : last.pre.prk[k] # 0

\* C12 (as stated): every key-material buffer released during the
\* generator's life holds only zero bytes when it is released.
ReleasedBuffersWiped ==
    \A r \in freed : \A k \in 1..Len(r.bytes) : r.bytes[k] = 0

AccessorOps == {"next_u32_subset", "next_u32", "next_u64_subset", "next_u64"}

\* the integer whose byte k has weight ByteBase^(k-1) (le) or ByteBase^(Len-k)
RECURSIVE PlaceValue(_, _, _)
PlaceValue(bytes, le, k) ==
    IF k > Len(bytes) THEN 0
    ELSE bytes[k] * ByteBase ^ (IF le THEN k - 1 ELSE Len(bytes) - k)
         + PlaceValue(bytes, le, k + 1)

\* C13: an integer accessor that returns has made exactly one fill of a zeroed
\* buffer of 4 bytes (u32) or 8 bytes (u64), with the subset size given or N
\* for next_u32 / next_u64: one counter step, the state and bytes of that one
\* fill, and the returned integer is those bytes read little-endian on
\* U32LE / U64LE instances and big-endian on U32BE / U64BE ones.
AccessorsFillOnce ==
    last.op \in AccessorOps /\ last.outcome = "ok" =>
        /\ Len(last.dst) = (IF last.op \in {"next_u32_subset", "next_u32"} THEN 4 ELSE 8)
        /\ ctr = last.pre.ctr + 1
        /\ \A f \in {fill_bytes_subset(dlen, last.pre,
                        IF last.op \in SubsetOps THEN last.subset ELSE Len(last.pre.arr),
                        Zeros(IF last.op \in {"next_u32_subset", "next_u32"} THEN 4 ELSE 8))} :
              f.outcome = "ok" /\ f.dst = last.dst /\ f.drbg = G
        /\ last.value = PlaceValue(last.dst, ctr_endian \in {"U32LE", "U64LE"}, 1)

\* C13: next_u64 on an instance with a 32-bit big-endian counter returned a
\* value that differs from the little-endian reading of its bytes
WideAccessorOnNarrowBigEndian ==
    /\ last.op = "next_u64"
    /\ last.outcome = "ok"
    /\ ctr_endian = "U32BE"
    /\ last.value # PlaceValue(last.dst, TRUE, 1)

\* C15 (as stated): an output call entered with ctr below the maximum reaches
\* none of the fatal sites: no zero range in the sampler, no short byte
\* queue, no swap or subkey index out of bounds, no short nonce_full, no AES
\* key length other than 16, 24, 32.
NoFatalSiteReached ==
    last.op \in OutputOps /\ last.pre.ctr < MAX(SIZE(last.pre.ctr_endian)) =>
        /\ last.outcome = "ok"
        /\ last.fault \notin {"rem_by_zero", "slice_out_of_range", "swap_out_of_bounds",
                              "subkey_out_of_bounds", "nonce_slice", "aes_key_len",
                              "prk_too_short"}

\* C16: in every state of a generator the PRK is the HKDF-Extract of the
\* concatenated array of that state under the salt context || "-OUTPUT" while
\* ctr = 0, and under context || "-NEXT" once a fill has completed.
PrkDerivedFromArray ==
    live =>
        prk = HkdfExtract(dlen,
                  as_bytes(context \o (IF ctr = 0 THEN <<"-", "O", "U", "T", "P", "U", "T">>
                                       ELSE <<"-", "N", "E", "X", "T">>)),
                  Flatten(arr))

\* C16: two fills have completed on an instance with a non-empty context
PrkAfterTwoFills ==
    /\ live
    /\ ctr = 2
    /\ context # <<>>
    /\ last.outcome = "ok"
    /\ arr # last.pre.arr

\* the array one Mixer round makes of the array the last call entered with,
\* keyed by HKDF-Extract(salt = context || suffix, ikm = the bytes written)
RemixedUnder(suffix) ==
    PrfMix(dlen, last.pre.arr,
           HkdfExtract(dlen, as_bytes(last.pre.context \o suffix), last.dst),
           1, last.pre.ctr_endian)

\* C17 (amended): after a returning output call the array is one Mixer round
\* of the previous array keyed by HKDF-Extract(salt = context || "-REMIX",
\* ikm = the bytes just written to dst).
EvolverKeyIsRemix ==
    last.op \in OutputOps /\ last.outcome = "ok" =>
        arr = RemixedUnder(<<"-", "R", "E", "M", "I", "X">>)

\* C17 (as stated): the same with the salt context || "-UPDATE".
EvolverKeyIsUpdate ==
    last.op \in OutputOps /\ last.outcome = "ok" =>
        arr = RemixedUnder(<<"-", "U", "P", "D", "A", "T", "E">>)

\* C17: a fill of a non-empty buffer has re-mixed a two-element array into
\* something the "-UPDATE" salt would not have given
RemixedAfterFill ==
    /\ last.op = "fill_bytes"
    /\ last.outcome = "ok"
    /\ last.dst # <<>>
    /\ Len(arr) = 2
    /\ arr # RemixedUnder(<<"-", "U", "P", "D", "A", "T", "E">>)

\* the string the constructor was given as context, "" for None
GivenContext == unwrap_or_empty(last.c)

\* the binding key as the code derives it, written out in HMAC calls:
\* HMAC(HMAC(context || "-BIND", concat(input)), info || 0x01), info naming
\* the byte order of the counter
BindKeyOfCode ==
    HmacDigest(dlen,
        HmacDigest(dlen, as_bytes(GivenContext \o <<"-", "B", "I", "N", "D">>), Flatten(last.a)),
        (IF IsLE(ctr_endian)
         THEN as_bytes(<<"l", "i", "t", "t", "l", "e", "-", "e", "n", "d", "i", "a", "n">>)
         ELSE as_bytes(<<"b", "i", "g", "-", "e", "n", "d", "i", "a", "n">>)) \o <<1>>)

\* the array a bound constructor stores when both keys come from one PRK,
\* HKDF-Extract(salt = H(concat(input)), ikm = concat(input)), expanded under
\* context || "-COMMIT" and context || "-MIX"
BoundFromOnePrk ==
    LET pk == HkdfExtract(dlen, Digest(dlen, Flatten(last.a)), Flatten(last.a))
    IN  PrfMix(dlen,
            PrfBind(dlen, last.a,
                HkdfExpand(dlen, pk,
                    as_bytes(GivenContext \o <<"-", "C", "O", "M", "M", "I", "T">>), dlen),
                ctr_endian),
            HkdfExpand(dlen, pk, as_bytes(GivenContext \o <<"-", "M", "I", "X">>), dlen),
            last.rounds, ctr_endian)

\* C18 (amended): a bound-and-mixed constructor binds with the key
\* HKDF-Expand(HKDF-Extract(salt = context || "-BIND", ikm = concat(input)),
\* "little-endian" or "big-endian", dlen) and mixes with the PRK
\* HKDF-Extract(salt = context || "-MIX", ikm = concat(bound array)).
BoundKeysOfCode ==
    last.op \in BoundOps /\ last.outcome = "Ok" =>
        LET bound == PrfBind(dlen, last.a, BindKeyOfCode, ctr_endian)
        IN  arr = PrfMix(dlen, bound,
                      HmacDigest(dlen, as_bytes(GivenContext \o <<"-", "M", "I", "X">>),
                                 Flatten(bound)),
                      last.rounds, ctr_endian)

\* C18 (as stated): both keys are expanded from the one PRK
\* HKDF-Extract(salt = H(concat(input)), ikm = concat(input)), the binding key
\* under context || "-COMMIT" and the mixing key under context || "-MIX".
BoundKeysFromOnePrk ==
    last.op \in BoundOps /\ last.outcome = "Ok" => arr = BoundFromOnePrk

\* C18: a big-endian bound constructor with a context and one round has
\* stored a two-element array that the one-PRK derivation would not give
BoundBigEndianWithContext ==
    /\ last.op \in {"new_u32_be", "new_u64_be"}
    /\ last.outcome = "Ok"
    /\ last.c # None
    /\ last.rounds = 1
    /\ Len(arr) = 2
    /\ arr # BoundFromOnePrk

\* the bound array after k Mixer rounds, the last of them round k - 1
RECURSIVE RoundsApplied(_, _, _)
RoundsApplied(bound, mix_prk, k) ==
    IF k = 0 THEN bound
    ELSE MixRound(dlen, RoundsApplied(bound, mix_prk, k - 1), mix_prk, k - 1, ctr_endian)

\* C19: a bound-and-mixed constructor stores the Binder output after exactly
\* `rounds` Mixer rounds numbered 0..rounds-1, N elements of dlen bytes each,
\* and the Binder output itself when rounds = 0; a raw constructor stores its
\* input unchanged.
ConstructionRounds ==
    /\ last.op \in BoundOps /\ last.outcome = "Ok" =>
        LET bound == DrbgBind(dlen, last.a, last.c, ctr_endian)
            mix_prk == derive_prk(dlen, Flatten(bound), Label(GivenContext, <<"-", "M", "I", "X">>))
        IN  /\ arr = RoundsApplied(bound, mix_prk, last.rounds)
            /\ last.rounds = 0 => arr = bound
            /\ Len(arr) = Len(last.a)
            /\ \A i \in 1..Len(arr) : Len(arr[i]) = dlen
    /\ last.op \in RawOps /\ last.outcome = "Ok" => arr = last.a

\* C19: a bound constructor with one round has stored two elements that are
\* not the Binder's
OneRoundOverBoundArray ==
    /\ last.op \in BoundOps
    /\ last.outcome = "Ok"
    /\ last.rounds = 1
    /\ Len(last.a) = 2
    /\ arr # DrbgBind(dlen, last.a, last.c, ctr_endian)

\* C20 (as stated): no byte of a PRF block is skipped: every byte next() has
\* returned was either consumed by a draw, W/8 bytes per draw, or is still
\* waiting in the queue.
NoBlockByteSkipped ==
    smp.on => smp.produced = smp.st.draws * SIZE(smp.e) + Len(smp.st.p)

\* C21: for every range in 1..2^W-1, rem = (0 - range) mod range computed in
\* W-bit wrapping arithmetic is 2^W mod range; with rem = 0 the draw is
\* accepted whatever it is; otherwise limit = 0 - rem is 2^W - rem, the
\* largest multiple of range below 2^W, and the draw is accepted iff it is
\* below limit.
RejectionArithmetic ==
    smp.on /\ smp.st.draws = 1 /\ smp.st.fills = 1 =>
        LET size  == SIZE(smp.e)
            range == smp.n
            rem   == RejectionRem(range, size)
            limit == RejectionLimit(rem, size)
            taken == smp.st.i = 1
        IN  /\ rem = Card2(size) % range
            /\ rem = 0 => taken
            /\ rem # 0 =>
                  /\ limit = Card2(size) - rem
                  /\ limit % range = 0
                  /\ limit < Card2(size) /\ limit + range > Card2(size)
                  /\ taken <=> smp.word < limit

\* C21: a 64-bit draw equal to limit - 1 was accepted on the largest range
\* that does not divide 2^W
LastValueBelowLimitAccepted ==
    /\ smp.on
    /\ smp.e = "U64BE"
    /\ smp.n = MAX(SIZE(smp.e))
    /\ smp.st.draws = 1
    /\ smp.word = MAX(SIZE(smp.e)) - 1
    /\ smp.st.i = 1

\* the W-bit values the round with this range accepts and maps to offset r
AcceptedFor(range, size, r) ==
    {v \in 0..MAX(size) : Accepted(v, RejectionRem(range, size), size) /\ v % range = r}

\* C22: at a sampler round with range = N - i every offset r in 0..range-1
\* is the image v mod range of the same number of accepted W-bit values v,
\* limit / range of them, or 2^W / range when rem = 0; an accepted draw moves
\* the index at offset v mod range to position i.
AcceptedDrawsSpreadEvenly ==
    /\ smp.on /\ smp.st.draws = 0 =>
          LET size  == SIZE(smp.e)
              range == smp.n - smp.st.i
              rem   == RejectionRem(range, size)
              share == (IF rem = 0 THEN Card2(size) ELSE RejectionLimit(rem, size)) \div range
          IN  /\ share * range = (IF rem = 0 THEN Card2(size) ELSE RejectionLimit(rem, size))
              /\ \A r \in 0..(range - 1) : Cardinality(AcceptedFor(range, size, r)) = share
    /\ smp.on /\ smp.st.draws = 1 /\ smp.st.i = 1 =>
          /\ smp.st.k_i[1] = smp.word % smp.n
          /\ Accepted(smp.word, RejectionRem(smp.n, SIZE(smp.e)), SIZE(smp.e))

\* C22: on a range that does not divide 2^W a 32-bit draw above the range was
\* accepted and picked the last offset
WrappedDrawPickedLastOffset ==
    /\ smp.on
    /\ smp.e = "U32LE"
    /\ smp.n = 3
    /\ smp.st.draws = 1
    /\ smp.st.i = 1
    /\ smp.word > smp.n
    /\ smp.st.k_i = <<2, 1, 0>>

\* C23: ctr never exceeds 2^W - 1 for the counter type of the instance; no
\* output call lowers it or wraps it to 0; a call that gets as far as the PRF
\* passes it a counter below 2^W - 1; a call entered with ctr = 2^W - 1
\* aborts; so no instance returns from more than 2^W - 1 output calls.
CounterBound ==
    /\ live => ctr <= MAX(SIZE(ctr_endian))
    /\ live => returned <= MAX(SIZE(ctr_endian))
    /\ last.op \in OutputOps =>
          /\ ctr >= last.pre.ctr
          /\ last.outcome = "ok" => ctr > 0
          /\ last.fault # "counter_limit" =>
                from_usize(last.pre.ctr, SIZE(ctr_endian)) < MAX(SIZE(ctr_endian))
          /\ last.pre.ctr = MAX(SIZE(ctr_endian)) =>
                last.outcome = "panic" /\ ctr = last.pre.ctr

\* C23: a 32-bit instance that has returned 2^W - 1 times refused next_u32
LastOutputThenRefusal ==
    /\ live
    /\ ctr_endian = "U32LE"
    /\ returned = MAX(SIZE(ctr_endian))
    /\ ctr = MAX(SIZE(ctr_endian))
    /\ calls = 2
    /\ last.op = "next_u32"
    /\ last.fault = "counter_limit"

\* C24: the sampler's loop comes to its end without a fault, having run
\* exactly s = min(subset, N) rounds, provided the PRF stream does not yield
\* rejected values forever; and at every point the limit of every range that
\* needs rejection is above half of 2^W.
SamplerTerminates ==
    /\ [](smp.on =>
            /\ smp.st.i <= smp.s
            /\ \A range \in 1..MAX(SIZE(smp.e)) :
                  RejectionRem(range, SIZE(smp.e)) # 0 =>
                      2 * RejectionLimit(RejectionRem(range, SIZE(smp.e)), SIZE(smp.e))
                          > Card2(SIZE(smp.e)))
    /\ <>[](smp.on /\ smp.st.fault = "none" /\ smp.st.i = smp.s)

\* C24: a full-size 64-bit run has ended after five draws or more, so after
\* at least two rejected ones
EndedAfterRejections ==
    /\ smp.on
    /\ smp.e = "U64LE"
    /\ smp.n = 3 /\ smp.s = 3
    /\ smp.st.i = 3
    /\ smp.st.draws >= 5
    /\ smp.st.ctr = 0
    /\ smp.st.fault = "none"

\* C25: the AES key is 32 bytes long when dlen >= 32, 24 when 24 <= dlen < 32
\* and 16 otherwise, and for every digest the constructors accept it is the
\* first bytes of key_full = HMAC(key, D_6 || commit || counter || acc), which
\* is never shorter than the key.
AesKeyIsPrefixOfKeyFull ==
    last.op = "derive_key_nonce" =>
        LET key_full == HmacDigest(dlen, last.a[1],
                            <<D_6>> \o last.a[2]
                                    \o encode(last.pre.ctr_endian, last.value) \o last.a[3])
            L == Len(last.dst)
        IN  /\ L = (IF dlen >= 32 THEN 32 ELSE IF dlen >= 24 THEN 24 ELSE 16)
            /\ validate_digest(dlen).err = "Ok" =>
                  /\ Len(key_full) >= L
                  /\ last.dst = SubSeq(key_full, 1, L)
                  /\ last.fault = "none"
                  /\ Len(last.data) = NONCE_LEN

\* C25: a 24-byte key was cut from a digest of 28 bytes
KeyOf24From28 ==
    /\ last.op = "derive_key_nonce"
    /\ dlen = 28
    /\ Len(last.dst) = 24
    /\ last.fault = "none"
    /\ last.a[3] # Zeros(dlen)

\* a buffer of m bytes that differs from the last call's buffer in every byte
OtherBuffer(m) ==
    [j \in 1..m |-> IF j <= Len(last.dst_in) THEN (ByteBase - 1) - last.dst_in[j] ELSE 1]

\* the subset size fill_bytes_subset was entered with in the last call
LastSubset == SubsetArg(last.op, last.pre, last.subset)

LastCommit == commitment(dlen, last.pre.arr, ctr_endian)

LastCounter == from_usize(last.pre.ctr, SIZE(ctr_endian))

LastSubkeys ==
    subkeys(dlen, last.pre.arr,
        HkdfExpand(dlen, last.pre.prk, as_bytes(<<"S", "U", "B", "K", "E", "Y", "S">>), dlen),
        LastCommit, ctr_endian)

LastIndices ==
    indices(dlen,
        HkdfExpand(dlen, last.pre.prk, as_bytes(<<"I", "N", "D", "I", "C", "E", "S">>), dlen),
        LastCommit, from_usize(Len(last.pre.arr), SIZE(ctr_endian)),
        from_usize(ClampSubset(LastSubset, Len(last.pre.arr)), SIZE(ctr_endian)),
        LastCounter, ctr_endian)

\* the output Prf::next writes when the combiner is handed the indices idx
OutputFor(idx) ==
    NextCombined(dlen, LastCounter, ctr_endian, last.dst_in, LastCommit,
        HkdfExpand(dlen, last.pre.prk, as_bytes(<<"P", "R", "F">>), dlen),
        combine(dlen, LastSubkeys, idx, LastCommit, LastCounter, ctr_endian))

\* every sequence of distinct indices below n
Orderings(n) ==
    {s \in UNION {[1..k -> 0..(n - 1)] : k \in 0..n} :
        \A x, y \in 1..Len(s) : x # y => s[x] # s[y]}

\* the XOR of the tags Y_i = HMAC(S[i], D_5 || commit || counter) over a set
\* of indices, the largest index first
RECURSIVE XorOfTags(_, _)
XorOfTags(sks, S) ==
    IF S = {} THEN Zeros(dlen)
    ELSE LET i == CHOOSE x \in S : \A y \in S : x >= y
         IN  XorBytes(HmacDigest(dlen, sks[i + 1],
                          <<D_5>> \o LastCommit \o encode(ctr_endian, LastCounter)),
                      XorOfTags(sks, S \ {i}))

\* C27: the accumulator is the XOR over the set of selected indices of their
\* tags, whatever order the sampler returned them in; with subset >= N the
\* output is the same for every permutation of all indices, and with
\* subset = 0 the accumulator is dlen zero bytes and output is still written.
CombinerIgnoresOrder ==
    last.op \in OutputOps /\ last.outcome = "ok" =>
        /\ \A idx \in Orderings(Len(last.pre.arr)) :
              \A r \in {combine(dlen, LastSubkeys, idx, LastCommit, LastCounter, ctr_endian)} :
                  /\ r.fault = "none"
                  /\ r.acc = XorOfTags(LastSubkeys, Range(idx))
        /\ LastSubset >= Len(last.pre.arr) =>
              \A idx \in Orderings(Len(last.pre.arr)) :
                  Len(idx) = Len(last.pre.arr) => OutputFor(idx).dst = last.dst
        /\ LastSubset = 0 =>
              /\ combine(dlen, LastSubkeys, <<>>, LastCommit, LastCounter, ctr_endian).acc
                    = Zeros(dlen)
              /\ Len(last.dst) = Len(last.dst_in)
              /\ OutputFor(<<>>).dst = last.dst

\* C27: a whole-array fill whose sampler returned the two indices swapped,
\* their tags being different
FilledFromSwappedIndices ==
    /\ last.op = "fill_bytes"
    /\ last.outcome = "ok"
    /\ last.dst # <<>>
    /\ Len(last.pre.arr) = 2
    /\ LastIndices.k_i = <<1, 0>>
    /\ XorOfTags(LastSubkeys, {0}) # XorOfTags(LastSubkeys, {1})

====
